---- MODULE Spec2Model ----
(***************************************************************************)
(* A model of task3.js: the command line validation, the DiceGame session  *)
(* (startGame and its two readline callbacks), FairRandom.generateNumber   *)
(* and ProbabilityCalculator.calculate.                                    *)
(*                                                                         *)
(* Text is a sequence of one-character strings.  A JavaScript Number that  *)
(* the program computes with more than 32 bits (the parsed digest, the     *)
(* quotient of a probability) is a sequence of bits, most significant      *)
(* first, so that the rounding of IEEE-754 doubles is computed rather than *)
(* assumed away.                                                           *)
(***************************************************************************)
EXTENDS Integers, Sequences, FiniteSets

VARIABLES
    pc,          \* "init" | "exited" | "command" | "continue" | "closed"
    args,        \* process.argv.slice(2): a sequence of texts
    exitCode,    \* NoExit while the process runs, else its exit code
    created,     \* TRUE once new DiceGame(...) has run
    hmacKey,     \* DiceGame.hmacKey (NoKey before the constructor)
    round,       \* DiceGame.round
    scores,      \* DiceGame.scores: <<scores[1], scores[2]>>
    diceConfigs, \* DiceGame.diceConfigs
    out,         \* what the console has seen so far: printed lines and inputs
    lastInput,   \* the text handed to the latest readline callback
    compRoll,    \* const compRoll of the latest round (NoRoll before)
    userRoll,    \* const userRoll of the latest round (NoRoll before)
    draws,       \* number of FairRandom.generateNumber calls so far
    drawKey,     \* the key of the latest FairRandom.generateNumber call
    starts,      \* number of startGame calls so far
    probe        \* input and result of a function examined on its own

vars == <<pc, args, exitCode, created, hmacKey, round, scores, diceConfigs,
          out, lastInput, compRoll, userRoll, draws, drawKey, starts, probe>>

(***************************************************************************)
(* Bounds of the model.                                                    *)
(***************************************************************************)
MaxStarts == 3     \* startGame calls in one session
MaxFace   == 3     \* face values of the configurations given to printTable
MaxLen1   == 2     \* faces of the first configuration given to printTable
MaxLen2   == 3     \* faces of the second configuration given to printTable
MaxRange  == 7     \* ranges given to generateNumber
MaxArgs   == 2     \* command line arguments
MaxArgLen == 3     \* characters per command line argument
ExpSpan   == 8     \* binary places kept below the 53 bits of a quotient
NumKeys   == 2     \* values crypto.randomBytes(32) can give the session key

(***************************************************************************)
(* Constants of the program and of the JavaScript Number type.             *)
(***************************************************************************)
MantissaBits == 53   \* significant bits of a double
HexDigits    == 64   \* digest('hex') of sha3-256: 64 hexadecimal digits
DieRange     == 6    \* the range of both rolls

NoExit == -1
NoRoll == -1
NoKey  == 0

(***************************************************************************)
(* IEEE-754 doubles as bit sequences.                                      *)
(***************************************************************************)

\* Index of the most significant 1 of bits, 0 when there is none.
LeadPos(bits) ==
    IF \A i \in DOMAIN bits : bits[i] = 0
    THEN 0
    ELSE CHOOSE i \in DOMAIN bits :
             bits[i] = 1 /\ \A j \in 1..(i - 1) : bits[j] = 0

\* The double nearest to the number written by bits (ties to even), written
\* on the same positions.  sticky says that the exact number has a non-zero
\* part below the last position.  bits[1] is 0, which leaves room for a carry.
RoundToDouble(bits, sticky) ==
    LET n   == Len(bits)
        p   == LeadPos(bits)
        lsb == p + MantissaBits - 1
    IN  IF p = 0 \/ lsb >= n
        THEN bits
        ELSE LET guard == bits[lsb + 1]
                 rest  == sticky \/ \E i \in (lsb + 2)..n : bits[i] = 1
                 up    == guard = 1 /\ (rest \/ bits[lsb] = 1)
                 trunc == [i \in 1..n |-> IF i <= lsb THEN bits[i] ELSE 0]
                 z     == CHOOSE j \in 1..lsb :
                              trunc[j] = 0 /\ \A k \in (j + 1)..lsb : trunc[k] = 1
             IN  IF up
                 THEN [i \in 1..n |-> IF i < z THEN trunc[i]
                                      ELSE IF i = z THEN 1 ELSE 0]
                 ELSE trunc

\* Fixed-point layout of the doubles in [0, 2): IntBits positions before the
\* binary point and FracBits after it.
IntBits  == 2
FracBits == MantissaBits + ExpSpan
FixLen   == IntBits + FracBits

\* The remainders of the long division of a by n: element k + 1 is
\* (a * 2^k) mod n.
RECURSIVE Rems(_, _, _)
Rems(a, n, k) ==
    IF k = 0 THEN <<a % n>>
    ELSE LET r == Rems(a, n, k - 1) IN Append(r, (2 * r[k]) % n)

\* a / n for integers 0 <= a <= n, n > 0, as JavaScript's division of two
\* Numbers gives it: the exact quotient rounded to the nearest double.
FloatDiv(a, n) ==
    LET r     == Rems(a, n, FracBits)
        exact == [i \in 1..FixLen |->
                    IF i < IntBits THEN 0
                    ELSE IF i = IntBits THEN a \div n
                    ELSE (2 * r[i - IntBits]) \div n]
    IN  RoundToDouble(exact, r[FracBits + 1] # 0)

\* The carries of the binary sum of x and y: element i is the carry into
\* position i, for i in 1..k counted from the last position backwards.
RECURSIVE Carries(_, _, _)
Carries(x, y, k) ==
    IF k = 0 THEN <<>>
    ELSE LET c == Carries(x, y, k - 1)
             i == Len(x) - k + 1
         IN  IF k = 1 THEN <<0>>
             ELSE Append(c, (x[i + 1] + y[i + 1] + c[k - 1]) \div 2)

\* x + y for two doubles: the exact sum rounded to the nearest double.
FloatAdd(x, y) ==
    LET n == Len(x)
        c == Carries(x, y, n)
    IN  RoundToDouble([i \in 1..n |-> (x[i] + y[i] + c[n - i + 1]) % 2], FALSE)

\* The double of a small integer v in 0..3.
FloatOf(v) ==
    [i \in 1..FixLen |-> IF i = IntBits - 1 THEN v \div 2
                         ELSE IF i = IntBits THEN v % 2 ELSE 0]

(***************************************************************************)
(* ProbabilityCalculator.calculate                                         *)
(***************************************************************************)

\* The pairs (i, j) the two nested loops visit.
Pairs(config1, config2) == (DOMAIN config1) \X (DOMAIN config2)

\* totalOutcomes after the loops.
TotalOutcomes(config1, config2) == Cardinality(Pairs(config1, config2))

FavorsOrTies(x, y) == x >= y

\* config1[i] > config2[j]
Favors(x, y) == x > y

\* favorableOutcomes after the loops.
FavorableOutcomes(config1, config2) ==
    Cardinality({p \in Pairs(config1, config2) :
                     Favors(config1[p[1]], config2[p[2]])})

\* ProbabilityCalculator.calculate: favorableOutcomes / totalOutcomes.
Calculate(config1, config2) ==
    FloatDiv(FavorableOutcomes(config1, config2), TotalOutcomes(config1, config2))

(***************************************************************************)
(* HMACGenerator.generate and FairRandom.generateNumber                    *)
(***************************************************************************)

\* The digits of digest('hex') and the value parseInt gives each.
HexChars == <<"0", "1", "2", "3", "4", "5", "6", "7",
              "8", "9", "a", "b", "c", "d", "e", "f">>

HexVal(c) == (CHOOSE i \in DOMAIN HexChars : HexChars[i] = c) - 1

\* The texts digest('hex') can return: HexDigits hexadecimal digits.
\* sha3-256 is not computed: the digest of an unknown 32-byte random input
\* may be any such text.  The model takes those that are "0" but for the
\* first digit, the digit at the end of a double's mantissa and the last one.
MidDigit == (MantissaBits + 3) \div 4

Digest(hi, mid, lo) ==
    [i \in 1..HexDigits |-> IF i = 1 THEN hi
                            ELSE IF i = MidDigit THEN mid
                            ELSE IF i = HexDigits THEN lo ELSE "0"]

HeadDigits == {"0", "1", "8", "f"}
MidDigits  == {"0", "1", "2", "3", "7", "8"}
TailDigits == {"0", "1", "3", "5", "8"}

Digests == {Digest(hi, mid, lo) : hi \in HeadDigits, mid \in MidDigits, lo \in TailDigits}

\* The binary numeral of a hexadecimal text, behind a leading 0.
HexToBits(hex) ==
    [i \in 1..(4 * Len(hex) + 1) |->
        IF i = 1 THEN 0
        ELSE LET k == i - 2
             IN  (HexVal(hex[(k \div 4) + 1]) \div (2 ^ (3 - (k % 4)))) % 2]

\* parseInt(hmac, 16): the integer the text writes, as a Number, that is
\* rounded to the nearest double.
ParseIntHex(hex) == RoundToDouble(HexToBits(hex), FALSE)

\* 2^k modulo m.
RECURSIVE Pow2Mod(_, _)
Pow2Mod(k, m) ==
    IF k = 0 THEN 1 % m
    ELSE LET h == Pow2Mod(k \div 2, m)
         IN  (h * h * (IF k % 2 = 1 THEN 2 ELSE 1)) % m

\* The integer written by bits[i..j], modulo m.
RECURSIVE ModRange(_, _, _, _)
ModRange(bits, i, j, m) ==
    IF i > j THEN 0
    ELSE IF i = j THEN bits[i] % m
    ELSE LET mid == (i + j) \div 2
         IN  (ModRange(bits, i, mid, m) * Pow2Mod(j - mid, m)
                + ModRange(bits, mid + 1, j, m)) % m

\* num % range for a non-negative integral Number num: the exact remainder.
NumberMod(num, range) == ModRange(num, 1, Len(num), range)

\* Lines 42-43 of FairRandom.generateNumber: the number returned when
\* HMACGenerator.generate returned hmac.
NumberOfDigest(hmac, range) == NumberMod(ParseIntHex(hmac), range)

Keys == 1..NumKeys

\* HMACGenerator.generate(key, random) for the random input of one call:
\* any of the digests.
Generate(key) == Digests

\* FairRandom.generateNumber(key, range): the numbers a call can return.
GenerateNumber(key, range) == {NumberOfDigest(hmac, range) : hmac \in Generate(key)}

(***************************************************************************)
(* Text                                                                    *)
(***************************************************************************)

Digits == <<"0", "1", "2", "3", "4", "5", "6", "7", "8", "9">>

IsDigit(c) == \E i \in DOMAIN Digits : Digits[i] = c

DigitVal(c) == (CHOOSE i \in DOMAIN Digits : Digits[i] = c) - 1

SetMin(S) == CHOOSE x \in S : \A y \in S : x <= y
SetMax(S) == CHOOSE x \in S : \A y \in S : x >= y

\* The text without its leading white space.
TrimStart(t) ==
    LET inked == {i \in DOMAIN t : t[i] # " "}
    IN  IF inked = {} THEN <<>> ELSE SubSeq(t, SetMin(inked), Len(t))

\* String.prototype.trim
Trim(t) ==
    LET inked == {i \in DOMAIN t : t[i] # " "}
    IN  IF inked = {} THEN <<>> ELSE SubSeq(t, SetMin(inked), SetMax(inked))

\* String.prototype.split(',')
Split(t) ==
    LET commas == {i \in DOMAIN t : t[i] = ","}
        cut(k) == IF k = 0 THEN 0
                  ELSE IF k = Cardinality(commas) + 1 THEN Len(t) + 1
                  ELSE CHOOSE i \in commas : Cardinality({j \in commas : j < i}) = k - 1
    IN  [k \in 1..(Cardinality(commas) + 1) |-> SubSeq(t, cut(k - 1) + 1, cut(k) - 1)]

\* The number written by the decimal digits d[1..k].
RECURSIVE DecValue(_, _)
DecValue(d, k) == IF k = 0 THEN 0 ELSE 10 * DecValue(d, k - 1) + DigitVal(d[k])

\* parseInt(t, 10): white space, a sign, then the longest run of digits; NaN
\* when that run is empty.  What follows the digits is ignored.
ParseInt(t) ==
    LET s     == TrimStart(t)
        sgn   == IF s # <<>> /\ s[1] \in {"-", "+"} THEN 1 ELSE 0
        body  == SubSeq(s, sgn + 1, Len(s))
        stops == {i \in DOMAIN body : ~IsDigit(body[i])}
        nd    == IF stops = {} THEN Len(body) ELSE SetMin(stops) - 1
        mag   == DecValue(body, nd)
    IN  IF nd = 0 THEN [nan |-> TRUE, val |-> 0]
        ELSE [nan |-> FALSE, val |-> IF sgn = 1 /\ s[1] = "-" THEN 0 - mag ELSE mag]

\* String.prototype.toUpperCase on the letters the model types.
Lower == <<"a", "b", "e", "h", "l", "n", "p", "x", "y">>
Upper == <<"A", "B", "E", "H", "L", "N", "P", "X", "Y">>

UpperChar(c) ==
    IF \E i \in DOMAIN Lower : Lower[i] = c
    THEN Upper[CHOOSE i \in DOMAIN Lower : Lower[i] = c]
    ELSE c

ToUpperCase(t) == [i \in DOMAIN t |-> UpperChar(t[i])]

(***************************************************************************)
(* Help.printTable                                                         *)
(***************************************************************************)

\* The probabilities Help.printTable computes, row by row.
Table(configs) ==
    [r \in DOMAIN configs |->
        [c \in DOMAIN configs |-> Calculate(configs[r], configs[c])]]

(***************************************************************************)
(* Command line validation (the script after the classes)                  *)
(***************************************************************************)

\* The test of line 174 on one piece of a configuration.
InvalidNumber(num) ==
    LET parsed == ParseInt(Trim(num))
    IN  parsed.nan \/ parsed.val <= 0

\* config.split(',').map(...) when no piece is refused.
Numbers(config) ==
    LET pieces == Split(config)
    IN  [k \in DOMAIN pieces |-> ParseInt(Trim(pieces[k])).val]

\* Some piece of some argument is refused at line 174.
SomeInvalid(argv) ==
    \E a \in DOMAIN argv :
        LET pieces == Split(argv[a])
        IN  \E k \in DOMAIN pieces : InvalidNumber(pieces[k])

(***************************************************************************)
(* The texts typed at the prompts                                          *)
(***************************************************************************)
TextX     == <<"X">>
TextLowX  == <<"x">>
TextQuery == <<"?">>
TextHelp  == <<"h", "e", "l", "p">>
TextHELP  == <<"H", "E", "L", "P">>
TextY     == <<"Y">>
TextLowY  == <<"y">>
TextN     == <<"N">>
Text3     == <<"3">>
Text7     == <<"7">>
TextAb    == <<"a", "b">>
TextEmpty == <<>>

Inputs == {TextX, TextLowX, TextQuery, TextHelp, TextHELP, TextY, TextLowY,
           TextN, Text3, Text7, TextAb, TextEmpty}

(***************************************************************************)
(* DiceGame                                                                *)
(***************************************************************************)

IsExitLowerCase(input) == input = TextLowX

\* input === 'X'
IsExit(input) == input = TextX

IsHelpQueryOnly(input) == input = TextQuery

\* input === '?' || input === 'help'
IsHelp(input) == input = TextQuery \/ input = TextHelp

\* answer.toUpperCase() === 'Y'
IsYes(answer) == ToUpperCase(answer) = TextY

\* The values of Math.floor(Math.random() * 6).
UserRolls == 0..(DieRange - 1)

ScoreTieToUser(s, user, comp) ==
    IF user >= comp THEN <<s[1] + 1, s[2]>> ELSE <<s[1], s[2] + 1>>

\* The if/else if/else of lines 134-142 on this.scores.
Score(s, user, comp) ==
    IF user > comp THEN <<s[1] + 1, s[2]>>
    ELSE IF user < comp THEN <<s[1], s[2] + 1>>
    ELSE s

\* The line that the same if/else if/else prints.
ResultLine(user, comp) ==
    IF user > comp THEN "win" ELSE IF user < comp THEN "lose" ELSE "tie"

StartGameAskTwice == <<"started", "table", "ask:command", "ask:command">>

StartGameNoTable == <<"started", "ask:command">>

\* What startGame writes before it returns: the banner, the table of
\* Help.printTable and the prompt of rl.question.
StartGameLines == <<"started", "table", "ask:command">>

\* The values of the program that each line written interpolates; "in" is a
\* line read, not written.
LineFields(line) ==
    CASE line = "err:number"  -> {"num", "config"}
      [] line = "configs"     -> {"diceConfigs"}
      [] line = "table"       -> {"diceConfigs"}
      [] line = "comp roll"   -> {"compRoll"}
      [] line = "user roll"   -> {"userRoll"}
      [] line = "score"       -> {"scores"}
      [] OTHER                -> {}

\* The numbers FairRandom.generateNumber(key, 6) can return, per key.
DieDraws == [k \in Keys |-> GenerateNumber(k, DieRange)]

\* No argument: lines 162-165.
StartupNoArgs ==
    /\ pc = "init"
    /\ Len(args) < 1
    /\ pc' = "exited"
    /\ exitCode' = 1
    /\ out' = out \o <<"err:args">>
    /\ UNCHANGED <<args, created, hmacKey, round, scores, diceConfigs,
                   lastInput, compRoll, userRoll, draws, drawKey,
                   starts, probe>>

\* A piece is refused: lines 174-177.
StartupInvalid ==
    /\ pc = "init"
    /\ Len(args) >= 1
    /\ SomeInvalid(args)
    /\ pc' = "exited"
    /\ exitCode' = 1
    /\ out' = out \o <<"err:number">>
    /\ UNCHANGED <<args, created, hmacKey, round, scores, diceConfigs,
                   lastInput, compRoll, userRoll, draws, drawKey,
                   starts, probe>>

\* Every piece passes: lines 167-188, the constructor and the first
\* startGame, up to its rl.question.
StartupOk ==
    /\ pc = "init"
    /\ Len(args) >= 1
    /\ ~SomeInvalid(args)
    /\ diceConfigs' = [a \in DOMAIN args |-> Numbers(args[a])]
    /\ created' = TRUE
    /\ \E key \in Keys : hmacKey' = key
    /\ round' = 1
    /\ scores' = <<0, 0>>
    /\ out' = out \o <<"configs">> \o StartGameLines
    /\ starts' = starts + 1
    /\ pc' = "command"
    /\ UNCHANGED <<args, exitCode, lastInput, compRoll, userRoll, draws, drawKey,
                   probe>>

\* The callback of the first rl.question, input 'X': lines 114-118.
CommandExit ==
    /\ pc = "command"
    /\ \E input \in Inputs :
        /\ IsExit(input)
        /\ lastInput' = input
    /\ out' = out \o <<"in", "game over">>
    /\ pc' = "closed"
    /\ exitCode' = 0
    /\ UNCHANGED <<args, created, hmacKey, round, scores, diceConfigs,
                   compRoll, userRoll, draws, drawKey, starts, probe>>

\* The same callback, a help request: lines 120-124, printHelp and the
\* startGame it calls.
CommandHelp ==
    /\ pc = "command"
    /\ starts < MaxStarts
    /\ \E input \in Inputs :
        /\ ~IsExit(input)
        /\ IsHelp(input)
        /\ lastInput' = input
    /\ out' = out \o <<"in", "help">> \o StartGameLines
    /\ starts' = starts + 1
    /\ pc' = "command"
    /\ UNCHANGED <<args, exitCode, created, hmacKey, round, scores, diceConfigs,
                   compRoll, userRoll, draws, drawKey, probe>>

RoundKeyOther(sessionKey) == (sessionKey % NumKeys) + 1

\* The key line 127 hands to FairRandom.generateNumber: this.hmacKey.
RoundKey(sessionKey) == sessionKey

RoundTypedRoll(input, comp, user, s) ==
    LET typed == IF Len(input) = 1 /\ IsDigit(input[1])
                 THEN DigitVal(input[1]) % DieRange ELSE user
    IN  [compRoll |-> comp, userRoll |-> typed, scores |-> Score(s, typed, comp),
         lines |-> <<"comp roll", "user roll", ResultLine(typed, comp), "score",
                     "ask:continue">>]

\* Lines 127-146 for the text typed, the number generateNumber returned, the
\* number Math.floor(Math.random() * 6) gave and the scores before: the two
\* rolls, the scores after, and what is written up to the second rl.question.
Round(input, comp, user, s) ==
    [compRoll |-> comp, userRoll |-> user, scores |-> Score(s, user, comp),
     lines |-> <<"comp roll", "user roll", ResultLine(user, comp), "score",
                 "ask:continue">>]

\* The same callback, any other input: lines 126-153, a round up to the
\* second rl.question.
CommandRound ==
    /\ pc = "command"
    /\ \E input \in Inputs, comp \in DieDraws[RoundKey(hmacKey)], user \in UserRolls :
        LET r == Round(input, comp, user, scores)
        IN  /\ ~IsExit(input)
            /\ ~IsHelp(input)
            /\ lastInput' = input
            /\ compRoll' = r.compRoll
            /\ userRoll' = r.userRoll
            /\ scores' = r.scores
            /\ out' = out \o <<"in">> \o r.lines
    /\ draws' = draws + 1
    /\ drawKey' = RoundKey(hmacKey)
    /\ pc' = "continue"
    /\ UNCHANGED <<args, exitCode, created, hmacKey, round, diceConfigs,
                   starts, probe>>

\* The callback of the second rl.question, answer Y: lines 147-148 and the
\* startGame it calls.
ContinueYes ==
    /\ pc = "continue"
    /\ starts < MaxStarts
    /\ \E answer \in Inputs :
        /\ IsYes(answer)
        /\ lastInput' = answer
    /\ out' = out \o <<"in">> \o StartGameLines
    /\ starts' = starts + 1
    /\ pc' = "command"
    /\ UNCHANGED <<args, exitCode, created, hmacKey, round, scores, diceConfigs,
                   compRoll, userRoll, draws, drawKey, probe>>

\* The same callback, any other answer: lines 149-152.
ContinueNo ==
    /\ pc = "continue"
    /\ \E answer \in Inputs :
        /\ ~IsYes(answer)
        /\ lastInput' = answer
    /\ out' = out \o <<"in", "game over">>
    /\ pc' = "closed"
    /\ exitCode' = 0
    /\ UNCHANGED <<args, created, hmacKey, round, scores, diceConfigs,
                   compRoll, userRoll, draws, drawKey, starts, probe>>

\* The state before the script runs, but for args and probe.
Idle ==
    /\ exitCode = NoExit
    /\ created = FALSE
    /\ hmacKey = NoKey
    /\ round = 0
    /\ scores = <<0, 0>>
    /\ diceConfigs = <<>>
    /\ out = <<>>
    /\ lastInput = <<>>
    /\ compRoll = NoRoll
    /\ userRoll = NoRoll
    /\ draws = 0
    /\ drawKey = NoKey
    /\ starts = 0

NoProbe == [fn |-> "none"]

\* The command lines of the sessions played.
GameArgs ==
    { <<>>,
      << <<"1", ",", "2">> >>,
      << <<"1", ",", "3">>, <<"2", ",", "2", ",", "3">> >>,
      << <<"2", "x">> >>,
      << <<"1", ",", "0">> >> }

Init ==
    /\ pc = "init"
    /\ args \in GameArgs
    /\ probe = NoProbe
    /\ Idle

Next ==
    \/ StartupNoArgs
    \/ StartupInvalid
    \/ StartupOk
    \/ CommandExit
    \/ CommandHelp
    \/ CommandRound
    \/ ContinueYes
    \/ ContinueNo

Spec == Init /\ [][Next]_vars

(***************************************************************************)
(* The command line validation on its own, over every short command line.  *)
(***************************************************************************)
ArgChars == {"0", "1", ",", " ", "-", "x"}

ArgTexts == UNION {[1..n -> ArgChars] : n \in 0..MaxArgLen}

ArgLists == UNION {[1..n -> ArgTexts] : n \in 0..MaxArgs}

InitArgs ==
    /\ pc = "init"
    /\ args \in ArgLists
    /\ probe = NoProbe
    /\ Idle

NextArgs ==
    \/ StartupNoArgs
    \/ StartupInvalid
    \/ StartupOk

SpecArgs == InitArgs /\ [][NextArgs]_vars

(***************************************************************************)
(* Help.printTable on its own, over the pairs of small configurations.     *)
(***************************************************************************)
Configs(maxLen) == UNION {[1..n -> 1..MaxFace] : n \in 1..maxLen}

\* The two configurations of the specification's example.
ExampleA == <<2, 2, 4, 4, 9, 9>>
ExampleB == <<1, 1, 6, 6, 8, 8>>

\* The lists of configurations printTable is given: every pair of small
\* configurations, and the example.
TableInputs ==
    {<<a, b>> : a \in Configs(MaxLen1), b \in Configs(MaxLen2)}
        \cup {<<ExampleA, ExampleB>>}

InitTable ==
    /\ pc = "probe"
    /\ args = <<>>
    /\ probe \in {[fn |-> "printTable", configs |-> c, done |-> FALSE,
                   table |-> <<>>] : c \in TableInputs}
    /\ Idle

PrintTable ==
    /\ probe.fn = "printTable"
    /\ ~probe.done
    /\ probe' = [probe EXCEPT !.done = TRUE, !.table = Table(probe.configs)]
    /\ UNCHANGED <<pc, args, exitCode, created, hmacKey, round, scores,
                   diceConfigs, out, lastInput, compRoll, userRoll, draws,
                   drawKey, starts>>

SpecTable == InitTable /\ [][PrintTable]_vars

(***************************************************************************)
(* Lines 42-43 of generateNumber on their own, over the digests and the    *)
(* ranges 1..MaxRange.                                                     *)
(***************************************************************************)
InitNumber ==
    /\ pc = "probe"
    /\ args = <<>>
    /\ probe \in {[fn |-> "generateNumber", hmac |-> h, range |-> r, done |-> FALSE,
                   result |-> NoRoll] : h \in Digests, r \in 1..MaxRange}
    /\ Idle

ReturnNumber ==
    /\ probe.fn = "generateNumber"
    /\ ~probe.done
    /\ probe' = [probe EXCEPT !.done = TRUE,
                              !.result = NumberOfDigest(probe.hmac, probe.range)]
    /\ UNCHANGED <<pc, args, exitCode, created, hmacKey, round, scores,
                   diceConfigs, out, lastInput, compRoll, userRoll, draws,
                   drawKey, starts>>

SpecNumber == InitNumber /\ [][ReturnNumber]_vars

(***************************************************************************)
(* Properties                                                              *)
(***************************************************************************)

\* The positions of out where an input was accepted.
InputsAt == {i \in DOMAIN out : out[i] = "in"}

\* The input that led to the line at position i: the last one before it.
InputBefore(i) == SetMax({k \in InputsAt : k < i} \cup {0})

\* C1: in every round the digest of the house's draw is shown before the
\* user's input for that draw is accepted (and after the input before it),
\* and the secret behind it is revealed after that input is accepted.
C1_DigestBeforeInput ==
    \A i \in DOMAIN out :
        out[i] = "comp roll" =>
            LET k == InputBefore(i)
            IN  /\ \E j \in 1..(k - 1) : out[j] = "digest" /\ InputBefore(k) < j
                /\ \E l \in (k + 1)..Len(out) : out[l] = "secret"

\* The value a text supplies for a roll: one digit below DieRange.
IsRollText(t) == Len(t) = 1 /\ IsDigit(t[1]) /\ DigitVal(t[1]) < DieRange

\* C2: after a round, the text typed at the prompt supplied a value u for the
\* roll and the roll the round reports for the house is (h + u) mod rangeSize,
\* h being the number generateNumber returned (compRoll is both the number
\* returned and the roll reported); for every house value h the map from u
\* to (h + u) mod n is a bijection on 0..n-1.
C2_CombinedOutcome ==
    /\ pc = "continue" =>
          /\ IsRollText(lastInput)
          /\ compRoll = (compRoll + DigitVal(lastInput[1])) % DieRange
    /\ \A h \in 0..(DieRange - 1) :
          {(h + u) % DieRange : u \in 0..(DieRange - 1)} = 0..(DieRange - 1)

\* C3: no step changes the scores unless, in that step and before the score
\* line, the secret was revealed and then the commitment verified.
C3_ScoreAfterVerify ==
    [][scores' # scores =>
          \E i, j \in (Len(out) + 1)..Len(out') :
              i < j /\ out'[i] = "secret" /\ out'[j] = "verified"]_vars

\* What the digest, read as an unsigned integer of all its bits, leaves
\* modulo range.
DigestMod(hmac, range) == ModRange(HexToBits(hmac), 1, 4 * Len(hmac) + 1, range)

\* C4: the number returned is the whole digest, read as an unsigned integer,
\* modulo range, and lies in 0..range-1.
C4_FullWidthReduction ==
    (probe.fn = "generateNumber" /\ probe.done) =>
        /\ probe.result = DigestMod(probe.hmac, probe.range)
        /\ probe.result \in 0..(probe.range - 1)

\* C5: a step that accepts the quit input X at either prompt closes the
\* session with exit code 0 and leaves the scores alone, and a closed session
\* takes no further step: no score changes and nothing more is written.
C5_QuitEnds ==
    [][/\ (pc \in {"command", "continue"} /\ lastInput' = TextX) =>
            (pc' = "closed" /\ exitCode' = 0 /\ scores' = scores)
       /\ pc = "closed" => (scores' = scores /\ out' = out /\ pc' = "closed")]_vars

\* C5 happens: the session was closed by X at the continue prompt.
C5_Witness ==
    /\ pc = "closed"
    /\ exitCode = 0
    /\ lastInput = TextX
    /\ Len(out) >= 3
    /\ out[Len(out) - 2] = "ask:continue"

\* A text that is no command and supplies no value for a roll.
Malformed(t) == ~IsExit(t) /\ ~IsHelp(t) /\ ~IsRollText(t)

\* C6: a step that accepts malformed input at the roll prompt reports it and
\* asks again: the scores are unchanged and no house draw is made.
C6_MalformedReprompts ==
    [][(pc = "command" /\ Malformed(lastInput')) =>
          (pc' = "command" /\ scores' = scores /\ draws' = draws)]_vars

\* C7: a step that accepts ? or help at the command prompt is back at the
\* command prompt with the scores, the session key and the round counter
\* unchanged and without a house draw.
C7_HelpNoEffect ==
    [][(pc = "command" /\ lastInput' \in {TextQuery, TextHelp}) =>
          /\ pc' = "command"
          /\ out'[Len(out')] = "ask:command"
          /\ scores' = scores
          /\ hmacKey' = hmacKey
          /\ round' = round
          /\ draws' = draws
          /\ compRoll' = compRoll]_vars

\* C7 happens: the word help was answered after a round that changed a score.
C7_Witness ==
    /\ pc = "command"
    /\ lastInput = TextHelp
    /\ out[Len(out) - 3] = "help"
    /\ scores # <<0, 0>>

\* C8: a step that resolves a round adds 1 to the winner's counter alone when
\* the rolls differ and changes neither when they are equal; every other step
\* leaves both counters alone.
C8_OneIncrement ==
    [][IF draws' # draws
       THEN /\ userRoll' > compRoll' => scores' = <<scores[1] + 1, scores[2]>>
            /\ userRoll' < compRoll' => scores' = <<scores[1], scores[2] + 1>>
            /\ userRoll' = compRoll' => scores' = scores
       ELSE scores' = scores]_vars

\* C8 happens: each side has won a round.
C8_Witness == scores = <<1, 1>> /\ draws >= 2

\* A piece that writes a positive integer: decimal digits only (white space
\* around them aside), not all of them 0.
PositiveIntegerText(t) ==
    LET s == Trim(t)
    IN  /\ s # <<>>
        /\ \A i \in DOMAIN s : IsDigit(s[i])
        /\ \E i \in DOMAIN s : s[i] # "0"

\* Every piece of every argument writes a positive integer, and there is an
\* argument.
WellFormedArgs ==
    /\ Len(args) >= 1
    /\ \A a \in DOMAIN args :
          LET pieces == Split(args[a])
          IN  \A k \in DOMAIN pieces : PositiveIntegerText(pieces[k])

\* C9: once the script has run, a command line that is not well formed has
\* ended the process with a non-zero exit code, no game created and no
\* prompt written; a well formed one has started the game.
C9_StartupValidation ==
    pc # "init" =>
        IF WellFormedArgs
        THEN pc # "exited" /\ created
        ELSE /\ pc = "exited"
             /\ exitCode # NoExit /\ exitCode # 0
             /\ ~created
             /\ hmacKey = NoKey
             /\ \A i \in DOMAIN out : out[i] \notin {"ask:command", "ask:continue"}

\* The number of pairs (i, j) with a[i] = b[j].
TiePairs(a, b) ==
    Cardinality({p \in (DOMAIN a) \X (DOMAIN b) : a[p[1]] = b[p[2]]})

\* tieFraction(a, b), a quotient of two Numbers like calculate's.
TieFraction(a, b) == FloatDiv(TiePairs(a, b), Len(a) * Len(b))

\* calculate(A, B) + calculate(B, A) + tieFraction(A, B) of a printed table.
ProbeSum ==
    FloatAdd(FloatAdd(probe.table[1][2], probe.table[2][1]),
             TieFraction(probe.configs[1], probe.configs[2]))

TableDone == probe.fn = "printTable" /\ probe.done

\* C10 as stated: the sum is exactly 1.
C10_SumExactlyOne == TableDone => ProbeSum = FloatOf(1)

\* x <= y for two doubles on the same positions.
FloatLeq(x, y) ==
    \/ x = y
    \/ LET first == CHOOSE i \in DOMAIN x :
                        x[i] # y[i] /\ \A j \in 1..(i - 1) : x[j] = y[j]
       IN  x[first] < y[first]

\* The doubles 1 - 2^-51 and 1 + 2^-51.
OneMinus == [i \in 1..FixLen |-> IF IntBits < i /\ i <= IntBits + 51 THEN 1 ELSE 0]
OnePlus  == [i \in 1..FixLen |-> IF i = IntBits \/ i = IntBits + 51 THEN 1 ELSE 0]

\* C10 amended: the pairs counted for A over B, for B over A and the tied
\* pairs are |A| * |B| in all, and the sum of the three doubles is 1 to within
\* 2^-51.
C10_SumNearlyOne ==
    TableDone =>
        LET a == probe.configs[1]
            b == probe.configs[2]
            sum == ProbeSum
        IN  /\ FavorableOutcomes(a, b) + FavorableOutcomes(b, a) + TiePairs(a, b)
                 = Len(a) * Len(b)
            /\ FloatLeq(OneMinus, sum)
            /\ FloatLeq(sum, OnePlus)

\* C10 happens: a table whose three doubles do not add up to exactly 1.
C10_Witness ==
    /\ TableDone
    /\ probe.configs = << <<1, 3>>, <<2, 2, 3>> >>
    /\ ProbeSum # FloatOf(1)

\* The number of pairs (i, j) with i <= k and a[i] > b[j], counted row by row.
RECURSIVE WinsUpTo(_, _, _)
WinsUpTo(a, b, k) ==
    IF k = 0 THEN 0
    ELSE WinsUpTo(a, b, k - 1) + Cardinality({j \in DOMAIN b : a[k] > b[j]})

\* C11: calculate(A, B) is the number of pairs (i, j) with A[i] > B[j] over
\* |A| * |B|, ties not counted; for the example it counts 20 pairs of 36 and
\* returns 5/9.
C11_WinFraction ==
    TableDone =>
        LET a == probe.configs[1]
            b == probe.configs[2]
        IN  /\ probe.table[1][2] = FloatDiv(WinsUpTo(a, b, Len(a)), Len(a) * Len(b))
            /\ probe.table[2][1] = FloatDiv(WinsUpTo(b, a, Len(b)), Len(a) * Len(b))
            /\ (a = ExampleA /\ b = ExampleB) =>
                  /\ WinsUpTo(a, b, Len(a)) = 20
                  /\ Len(a) * Len(b) = 36
                  /\ probe.table[1][2] = FloatDiv(5, 9)

\* C11 happens: the table of the example has been computed.
C11_Witness ==
    /\ TableDone
    /\ probe.configs = <<ExampleA, ExampleB>>
    /\ probe.table[1][2] = FloatDiv(20, 36)

\* The double 0.5.
Half == FloatDiv(1, 2)

\* C17: the table has an entry for every row r and column c, r = c included,
\* and every entry on the diagonal is strictly less than 0.5.
C17_DiagonalBelowHalf ==
    TableDone =>
        /\ DOMAIN probe.table = DOMAIN probe.configs
        /\ \A r \in DOMAIN probe.configs :
              /\ DOMAIN probe.table[r] = DOMAIN probe.configs
              /\ \A c \in DOMAIN probe.configs : Len(probe.table[r][c]) = FixLen
              /\ FloatLeq(probe.table[r][r], Half)
              /\ probe.table[r][r] # Half

\* C17 happens: a diagonal entry that is neither 0 nor 0.5, the one of
\* <<1, 2, 3>> being 3/9.
C17_Witness ==
    /\ TableDone
    /\ probe.configs[2] = <<1, 2, 3>>
    /\ probe.table[2][2] = FloatDiv(1, 3)

\* C12: at the command prompt the quit token in either letter case ends the
\* session, and the help token in any letter case is a help request: back at
\* the command prompt without a house draw.
C12_CaseInsensitiveTokens ==
    [][pc = "command" =>
          /\ (ToUpperCase(lastInput') = TextX) => pc' = "closed"
          /\ (ToUpperCase(lastInput') \in {TextQuery, TextHELP}) =>
                (pc' = "command" /\ draws' = draws)]_vars

\* An answer that is neither Y, N nor X in either letter case.
Unrecognized(answer) == ToUpperCase(answer) \notin {TextY, TextN, TextX}

\* C13: a step that accepts an unrecognized answer at the continue prompt
\* asks the continue prompt again and does not end the session.
C13_UnrecognizedReprompts ==
    [][(pc = "continue" /\ Unrecognized(lastInput')) =>
          /\ pc' = "continue"
          /\ exitCode' = NoExit
          /\ out'[Len(out')] = "ask:continue"]_vars

\* C14: the session key is set when the DiceGame is created and at no other
\* step, every FairRandom.generateNumber call of the session is given that
\* key, and no line written interpolates it.
C14_SessionKey ==
    /\ [](IF created THEN hmacKey \in Keys ELSE hmacKey = NoKey)
    /\ [][hmacKey' # hmacKey => (~created /\ created')]_vars
    /\ [](IF draws > 0 THEN drawKey = hmacKey ELSE drawKey = NoKey)
    /\ [][draws' # draws => (created /\ drawKey' = hmacKey)]_vars
    /\ [](\A i \in DOMAIN out : "hmacKey" \notin LineFields(out[i]))

\* The number of lines of out that are in S.
CountOf(S) == Cardinality({i \in DOMAIN out : out[i] \in S})

\* C14 happens: two house draws with the second key, a help request and a
\* continuation in between.
C14_Witness ==
    /\ draws = 2
    /\ hmacKey = NumKeys
    /\ drawKey = hmacKey
    /\ CountOf({"help"}) = 1
    /\ pc = "closed"

\* The two prompts of rl.question.
Asks == {"ask:command", "ask:continue"}

\* The prompts issued and not answered yet.
PendingPrompts == CountOf(Asks) - CountOf({"in"})

\* C15: at most one prompt is pending, and one is exactly while the session
\* waits; the score line of a round is written before any later prompt; and
\* every step after the start begins by reading the answer of the pending
\* prompt.
C15_OnePendingPrompt ==
    /\ [](LET pending == PendingPrompts
          IN  /\ pending \in {0, 1}
              /\ (pending = 1) <=> (pc \in {"command", "continue"})
              /\ (pending = 1) => (out[Len(out)] \in Asks)
              /\ \A i \in DOMAIN out :
                    (out[i] = "comp roll") =>
                        \A j \in (i + 1)..Len(out) :
                            (out[j] \in Asks) => \E k \in i..j : out[k] = "score")
    /\ [][pc # "init" =>
            /\ pc \in {"command", "continue"}
            /\ Len(out') > Len(out)
            /\ out'[Len(out) + 1] = "in"]_vars

\* C15 happens: a second round has been played and its prompt is pending.
C15_Witness ==
    /\ pc = "continue"
    /\ draws = 2
    /\ PendingPrompts = 1
    /\ CountOf({"score"}) = 2

\* C16 as stated: the table is printed at most once in a session.
C16_TableAtMostOnce == CountOf({"table"}) <= 1

\* C16: the table is printed once per call of startGame: at the start, and
\* once more for each help request and each continuation.
C16_TablePerStart ==
    /\ [](/\ CountOf({"table"}) = starts
          /\ CountOf({"table"}) = CountOf({"started"}))
    /\ [][((pc = "command" /\ IsHelp(lastInput') /\ ~IsExit(lastInput'))
              \/ (pc = "continue" /\ IsYes(lastInput'))) =>
            CountOf({"table"})' = CountOf({"table"}) + 1]_vars
    /\ [][(pc = "command" /\ pc' = "continue") =>
            CountOf({"table"})' = CountOf({"table"})]_vars

\* C16 happens: the table has been printed three times, once at the start,
\* once after a help request and once after a continuation.
C16_Witness ==
    /\ CountOf({"table"}) = 3
    /\ CountOf({"help"}) = 1
    /\ draws = 1
    /\ pc = "command"

\* The texts that start a round at the command prompt.
RoundTexts == {t \in Inputs : ~IsExit(t) /\ ~IsHelp(t)}

\* C18: at the command prompt, for the same two random draws, every two texts
\* that start a round give the same rolls, the same result line and the same
\* scores.
C18_TextNoInfluence ==
    pc = "command" =>
        \A comp \in DieDraws[RoundKey(hmacKey)], user \in UserRolls :
            \A t1, t2 \in RoundTexts :
                Round(t1, comp, user, scores) = Round(t2, comp, user, scores)

\* C18 happens: a round started by the text 3 in which the user rolled
\* another number and won.
C18_Witness ==
    /\ pc = "continue"
    /\ lastInput = Text3
    /\ userRoll = 5
    /\ compRoll < userRoll
    /\ scores = <<1, 0>>

\* C19: the two counters add up to the rounds resolved less the ties, hence
\* to no more than the rounds resolved, and a continuation leaves them as
\* they are.
C19_ScoreSum ==
    /\ [](/\ scores[1] + scores[2] = draws - CountOf({"tie"})
          /\ scores[1] + scores[2] <= draws)
    /\ [][(pc = "continue" /\ pc' = "command") =>
            (scores' = scores /\ draws' = draws)]_vars

\* C19 happens: after a continuation, two rounds resolved, one of them a tie.
C19_Witness ==
    /\ pc = "continue"
    /\ draws = 2
    /\ CountOf({"tie"}) = 1
    /\ scores[1] + scores[2] = 1

====
